---- MODULE Spec2Model ----
(***************************************************************************)
(* Model of the subscription ledger of src/data_manager.py: the per-year   *)
(* JSON files of DataManager, its load/save pair, the ledger operations    *)
(* built on them, and backup/restore.                                      *)
(*                                                                         *)
(* Strings that the code converts (the year in a file name, the year key   *)
(* of a backup) are sequences of one-character strings, so that str() and  *)
(* int() are computed and not assumed.  A file's text is abstracted to     *)
(* what json.load makes of it: a JSON value, or text that does not parse.  *)
(***************************************************************************)
EXTENDS Integers, Sequences, FiniteSets, TLC

VARIABLES
    files,      \* the data directory: file stem -> content
    now,        \* the wall clock read by datetime.now()
    bundle,     \* the text last returned by create_full_backup (the download)
    lastOp,     \* the last call made on the DataManager, with what it returned
    pc,         \* per process: where it stands in a load -> mutate -> save cycle
    local       \* per process: the record it holds in memory and what it saw

vars == <<files, now, bundle, lastOp, pc, local>>

----------------------------------------------------------------------------
(* Bounds of the model *)

\* The number of calls a behaviour makes: every call reads the clock, which has
\* moved on by one since the call before.
MaxTime == 3

(* Program constants *)

DefaultTotalPrice == 100
DefaultMaxSlots == 10

Years == {2024, 2025}
Names == {"Alice", "Bob"}
MONTHS == <<"Jan", "Feb", "Mar", "Apr", "May", "Jun",
            "Jul", "Aug", "Sep", "Oct", "Nov", "Dec">>
MonthCodes == {MONTHS[i] : i \in 1..12}

(* The inputs the model feeds to the operations *)
MonthInputs == {"Jan", "Dec"}
\* Month arguments that are none of the twelve codes
OtherMonths == {"Foo"}
BulkStarts == {"Nov"}
BulkLens == {1, 3}
\* An optional argument: None, or a value
Some(x) == [type |-> "some", value |-> x]
FilterInputs == {[type |-> "none"], Some("Alice")}
LimitInputs == {[type |-> "none"], Some(0), Some(1)}
\* The records the summary is computed of: members, total_price, and the flags
\* of the first and of the second name
SummaryMembers == {<<>>, <<"Alice">>, <<"Alice", "Bob">>, <<"Bob", "Alice">>}
SummaryPrices == {0, 60, 100}
SummaryFlags ==
    {<<>>,
     [c \in {"Jan"} |-> TRUE],
     [c \in {"Jan", "Feb", "Mar"} |-> TRUE],
     [c \in {"Jan", "Dec"} |-> c = "Jan"],
     [c \in MonthCodes |-> TRUE]}
SummaryFlagsOther == {<<>>, [c \in {"Dec"} |-> TRUE]}
SettingsInputs == {[total_price |-> 60, max_slots |-> 5]}
IOModes == {"ok", "open_fail", "write_fail"}
Procs == {1, 2}

----------------------------------------------------------------------------
(* Strings: str(int) and int(str) *)

DIGITS == <<"0", "1", "2", "3", "4", "5", "6", "7", "8", "9">>

RECURSIVE NatStr(_)
NatStr(n) ==
    IF n < 10 THEN <<DIGITS[n + 1]>>
    ELSE Append(NatStr(n \div 10), DIGITS[(n % 10) + 1])

\* str(year), as in the f-string of get_data_file_path and in create_full_backup
IntStr(n) == IF n < 0 THEN <<"-">> \o NatStr(-n) ELSE NatStr(n)

IsDigit(c) == \E i \in 1..10 : DIGITS[i] = c
DigitVal(c) == (CHOOSE i \in 1..10 : DIGITS[i] = c) - 1

RECURSIVE DigitsVal(_)
DigitsVal(s) ==
    IF s = <<>> THEN 0
    ELSE 10 * DigitsVal(SubSeq(s, 1, Len(s) - 1)) + DigitVal(s[Len(s)])

RECURSIVE Strip(_)
Strip(s) ==
    IF s # <<>> /\ s[1] = " " THEN Strip(Tail(s))
    ELSE IF s # <<>> /\ s[Len(s)] = " " THEN Strip(SubSeq(s, 1, Len(s) - 1))
    ELSE s

\* int(s): surrounding blanks, an optional sign, then one or more digits;
\* anything else is a ValueError (ok = FALSE)
ParseInt(str) ==
    LET s == Strip(str)
        signed == s # <<>> /\ s[1] \in {"-", "+"}
        body == IF signed THEN Tail(s) ELSE s
        good == body # <<>> /\ \A i \in 1..Len(body) : IsDigit(body[i])
    IN IF ~good THEN [ok |-> FALSE, value |-> 0]
       ELSE [ok |-> TRUE,
             value |-> IF signed /\ s[1] = "-" THEN 0 - DigitsVal(body)
                       ELSE DigitsVal(body)]

----------------------------------------------------------------------------
(* Maps (Python dicts) and lists *)

EmptyMap == [k \in {} |-> FALSE]
Put(m, k, v) == [x \in DOMAIN m \cup {k} |-> IF x = k THEN v ELSE m[x]]
Del(m, k) == [x \in DOMAIN m \ {k} |-> m[x]]
Get(m, k, dflt) == IF k \in DOMAIN m THEN m[k] ELSE dflt

InSeq(x, s) == \E i \in 1..Len(s) : s[i] = x

\* list.remove(x): drops the first occurrence
RemoveFirst(s, x) ==
    LET i == CHOOSE j \in 1..Len(s) : s[j] = x /\ \A k \in 1..(j - 1) : s[k] # x
    IN SubSeq(s, 1, i - 1) \o SubSeq(s, i + 1, Len(s))

IsPrefix(s, t) == Len(s) <= Len(t) /\ SubSeq(t, 1, Len(s)) = s

NoneVal == [type |-> "none"]

----------------------------------------------------------------------------
(* The record store *)

\* The stems <s> of the files subscription_data_<s>.json the directory may hold:
\* those the program writes, and two an outside hand may leave there.
StrayStems == {<<"x">>, <<"0">> \o IntStr(2024)}
Stems == {IntStr(y) : y \in Years} \cup StrayStems

Missing == [kind |-> "missing"]
Garbage == [kind |-> "garbage"]          \* text json.load rejects (also empty or cut short)
Unreadable == [kind |-> "unreadable"]    \* open() or the decoding of the bytes fails
JsonText(v) == [kind |-> "json", value |-> v]
NonObject == [type |-> "list"]           \* a JSON value that is no object

EmptyStore == [s \in Stems |-> Missing]

get_data_file_path(year) == IntStr(year)

DefaultRecord(year, t) ==
    [type |-> "dict",
     year |-> year,
     members |-> <<>>,
     payments |-> EmptyMap,
     payment_history |-> <<>>,
     settings |-> [total_price |-> DefaultTotalPrice, max_slots |-> DefaultMaxSlots],
     created_at |-> t,
     updated_at |-> t]

\* load_data: what json.load returns when the file exists and parses; the default
\* structure when it is missing or json.load raises JSONDecodeError; any other
\* error of open() or read() is not caught.
load_data(fs, year, t) ==
    LET c == fs[get_data_file_path(year)]
    IN  IF c.kind = "json" THEN [raised |-> FALSE, data |-> c.value]
        ELSE IF c.kind = "unreadable" THEN [raised |-> TRUE, data |-> NoneVal]
        ELSE [raised |-> FALSE, data |-> DefaultRecord(year, t)]

\* save_data: stamps updated_at (outside the try: a TypeError on a value that is
\* no dict propagates), then open(..., 'w') and json.dump inside a try whose
\* except prints and returns.  io is what the file system does: "ok", the open
\* fails (file untouched), or a write fails after the open truncated the file.
save_data(fs, year, data, t, io) ==
    IF data.type # "dict"
    THEN [files |-> fs, raised |-> TRUE, saved |-> "none", data |-> data]
    ELSE LET d == [data EXCEPT !.updated_at = t]
             p == get_data_file_path(year)
         IN  IF io = "ok"
             THEN [files |-> [fs EXCEPT ![p] = JsonText(d)], raised |-> FALSE,
                   saved |-> "ok", data |-> d]
             ELSE IF io = "open_fail"
             THEN [files |-> fs, raised |-> FALSE, saved |-> "failed", data |-> d]
             ELSE [files |-> [fs EXCEPT ![p] = Garbage], raised |-> FALSE,
                   saved |-> "failed", data |-> d]

RECURSIVE SortedSeq(_)
SortedSeq(S) ==
    IF S = {} THEN <<>>
    ELSE LET m == CHOOSE x \in S : \A y \in S : x <= y
         IN <<m>> \o SortedSeq(S \ {m})

\* get_available_years: the stems that int() accepts, sorted.  Two files whose
\* stems denote the same year give that year twice in the code's list; the
\* model keeps the set, which is all its callers use.
get_available_years(fs) ==
    SortedSeq({ParseInt(s).value : s \in {x \in Stems : fs[x].kind # "missing" /\ ParseInt(x).ok}})

\* What an operation hands back: the directory after it, whether it raised,
\* its return value, and what became of its save ("none": no save was tried).
Raise(fs) == [files |-> fs, raised |-> TRUE, ret |-> NoneVal, saved |-> "none"]
Done(sv, ret) == [files |-> sv.files, raised |-> sv.raised, ret |-> ret, saved |-> sv.saved]
Skip(fs, ret) == [files |-> fs, raised |-> FALSE, ret |-> ret, saved |-> "none"]

IsDict(l) == ~l.raised /\ l.data.type = "dict"

----------------------------------------------------------------------------
(* Ledger operations *)

create_year_data(fs, year, t, io) ==
    LET l == load_data(fs, year, t)
    IN  IF l.raised THEN Raise(fs)
        ELSE LET sv == save_data(fs, year, l.data, t, io)
             IN Done(sv, sv.data)

\* Variant: the target's payments are emptied, no entry is made for the members
copy_members_from_year_bare(fs, source_year, target_year, t, io) ==
    LET s == load_data(fs, source_year, t)
        g == load_data(fs, target_year, t)
    IN  IF ~IsDict(s) \/ ~IsDict(g) THEN Raise(fs)
        ELSE LET d == [g.data EXCEPT !.members = s.data.members,
                                     !.payments = EmptyMap]
             IN Done(save_data(fs, target_year, d, t, io), NoneVal)

\* Variant: the source's payment flags are copied with the members
copy_members_from_year_flags(fs, source_year, target_year, t, io) ==
    LET s == load_data(fs, source_year, t)
        g == load_data(fs, target_year, t)
    IN  IF ~IsDict(s) \/ ~IsDict(g) THEN Raise(fs)
        ELSE LET d == [g.data EXCEPT !.members = s.data.members,
                                     !.payments = s.data.payments]
             IN Done(save_data(fs, target_year, d, t, io), NoneVal)

copy_members_from_year(fs, source_year, target_year, t, io) ==
    LET s == load_data(fs, source_year, t)
        g == load_data(fs, target_year, t)
    IN  IF ~IsDict(s) \/ ~IsDict(g) THEN Raise(fs)
        ELSE LET d == [g.data EXCEPT
                         !.members = s.data.members,
                         !.payments = [m \in {s.data.members[i] : i \in 1..Len(s.data.members)}
                                         |-> EmptyMap]]
             IN Done(save_data(fs, target_year, d, t, io), NoneVal)

\* Variant: the name is appended whether or not it is a member already
add_member_dup(fs, year, member_name, t, io) ==
    LET l == load_data(fs, year, t)
    IN  IF ~IsDict(l) THEN Raise(fs)
        ELSE LET d == [l.data EXCEPT !.members = Append(@, member_name),
                                     !.payments = Put(@, member_name, EmptyMap)]
             IN Done(save_data(fs, year, d, t, io), NoneVal)

add_member(fs, year, member_name, t, io) ==
    LET l == load_data(fs, year, t)
    IN  IF ~IsDict(l) THEN Raise(fs)
        ELSE IF ~InSeq(member_name, l.data.members)
        THEN LET d == [l.data EXCEPT !.members = Append(@, member_name),
                                     !.payments = Put(@, member_name, EmptyMap)]
             IN Done(save_data(fs, year, d, t, io), NoneVal)
        ELSE Skip(fs, NoneVal)

\* Variant: the payments entry goes, the name stays in members
remove_member_keep(fs, year, member_name, t, io) ==
    LET l == load_data(fs, year, t)
    IN  IF ~IsDict(l) THEN Raise(fs)
        ELSE IF InSeq(member_name, l.data.members)
        THEN LET d == [l.data EXCEPT !.payments = Del(@, member_name)]
             IN Done(save_data(fs, year, d, t, io), NoneVal)
        ELSE Skip(fs, NoneVal)

\* Variant: the history entries of the removed member go with it
remove_member_purge(fs, year, member_name, t, io) ==
    LET l == load_data(fs, year, t)
    IN  IF ~IsDict(l) THEN Raise(fs)
        ELSE IF InSeq(member_name, l.data.members)
        THEN LET d == [l.data EXCEPT
                         !.members = RemoveFirst(@, member_name),
                         !.payments = Del(@, member_name),
                         !.payment_history =
                             SelectSeq(@, LAMBDA h : h.member # member_name)]
             IN Done(save_data(fs, year, d, t, io), NoneVal)
        ELSE Skip(fs, NoneVal)

\* Variant: a name that is no member is saved all the same
remove_member_resave(fs, year, member_name, t, io) ==
    LET l == load_data(fs, year, t)
    IN  IF ~IsDict(l) THEN Raise(fs)
        ELSE LET d == [l.data EXCEPT
                         !.members = SelectSeq(@, LAMBDA m : m # member_name),
                         !.payments = Del(@, member_name)]
             IN Done(save_data(fs, year, d, t, io), NoneVal)

remove_member(fs, year, member_name, t, io) ==
    LET l == load_data(fs, year, t)
    IN  IF ~IsDict(l) THEN Raise(fs)
        ELSE IF InSeq(member_name, l.data.members)
        THEN LET d == [l.data EXCEPT !.members = RemoveFirst(@, member_name),
                                     !.payments = Del(@, member_name)]
             IN Done(save_data(fs, year, d, t, io), NoneVal)
        ELSE Skip(fs, NoneVal)

HistoryEntry(t, member_name, month, old_status, paid) ==
    [timestamp |-> t,
     member |-> member_name,
     month |-> month,
     action |-> IF paid THEN "marked_paid" ELSE "marked_unpaid",
     old_status |-> old_status,
     new_status |-> paid]

\* Variant: a history entry is made whether or not the flag changes
update_payment_always(fs, year, member_name, month, paid, t, io) ==
    LET l == load_data(fs, year, t)
    IN  IF ~IsDict(l) THEN Raise(fs)
        ELSE LET pay == IF member_name \in DOMAIN l.data.payments
                        THEN l.data.payments
                        ELSE Put(l.data.payments, member_name, EmptyMap)
                 old_status == Get(pay[member_name], month, FALSE)
                 hist == Append(l.data.payment_history,
                                HistoryEntry(t, member_name, month, old_status, paid))
                 d == [l.data EXCEPT
                         !.payment_history = hist,
                         !.payments = Put(pay, member_name, Put(pay[member_name], month, paid))]
             IN Done(save_data(fs, year, d, t, io), NoneVal)

update_payment(fs, year, member_name, month, paid, t, io) ==
    LET l == load_data(fs, year, t)
    IN  IF ~IsDict(l) THEN Raise(fs)
        ELSE LET pay == IF member_name \in DOMAIN l.data.payments
                        THEN l.data.payments
                        ELSE Put(l.data.payments, member_name, EmptyMap)
                 old_status == Get(pay[member_name], month, FALSE)
                 hist == IF old_status # paid
                         THEN Append(l.data.payment_history,
                                     HistoryEntry(t, member_name, month, old_status, paid))
                         ELSE l.data.payment_history
                 d == [l.data EXCEPT
                         !.payment_history = hist,
                         !.payments = Put(pay, member_name, Put(pay[member_name], month, paid))]
             IN Done(save_data(fs, year, d, t, io), NoneVal)

update_settings(fs, year, total_price, max_slots, t, io) ==
    LET l == load_data(fs, year, t)
    IN  IF ~IsDict(l) THEN Raise(fs)
        ELSE LET d == [l.data EXCEPT !.settings = [total_price |-> total_price,
                                                   max_slots |-> max_slots]]
             IN Done(save_data(fs, year, d, t, io), NoneVal)

RECURSIVE SetAll(_, _, _)
SetAll(m, months, paid) ==
    IF months = <<>> THEN m
    ELSE SetAll(Put(m, Head(months), paid), Tail(months), paid)

\* Variant: the member's flags are replaced by the listed ones
bulk_update_payments_only(fs, year, member_name, months, paid, t, io) ==
    LET l == load_data(fs, year, t)
    IN  IF ~IsDict(l) THEN Raise(fs)
        ELSE LET d == [l.data EXCEPT
                         !.payments = Put(@, member_name, SetAll(EmptyMap, months, paid))]
             IN Done(save_data(fs, year, d, t, io), NoneVal)

\* bulk_update_payments: writes every listed flag; no history entry is made
bulk_update_payments(fs, year, member_name, months, paid, t, io) ==
    LET l == load_data(fs, year, t)
    IN  IF ~IsDict(l) THEN Raise(fs)
        ELSE LET pay == IF member_name \in DOMAIN l.data.payments
                        THEN l.data.payments
                        ELSE Put(l.data.payments, member_name, EmptyMap)
                 d == [l.data EXCEPT
                         !.payments = Put(pay, member_name,
                                          SetAll(pay[member_name], months, paid))]
             IN Done(save_data(fs, year, d, t, io), NoneVal)

\* utils.calculate_bulk_payment_months: num_months codes from start_month on,
\* cycling past Dec to Jan; an unknown start_month counts as Jan
MonthIndex(start_month) ==
    IF start_month \in MonthCodes
    THEN (CHOOSE i \in 1..12 : MONTHS[i] = start_month) - 1
    ELSE 0

calculate_bulk_payment_months(start_month, num_months) ==
    [i \in 1..num_months |-> MONTHS[((MonthIndex(start_month) + (i - 1)) % 12) + 1]]

----------------------------------------------------------------------------
(* Backup and restore *)

\* Variant: the backup leaves the history out
RECURSIVE BackupEntries_nohist(_, _, _)
BackupEntries_nohist(fs, ys, t) ==
    IF ys = <<>> THEN <<>>
    ELSE <<[key |-> IntStr(Head(ys)),
            value |-> [load_data(fs, Head(ys), t).data EXCEPT !.payment_history = <<>>]]>>
         \o BackupEntries_nohist(fs, Tail(ys), t)

\* A JSON object is kept as the sequence of its (key, value) pairs, in the order
\* of the text, which is the order restore_from_backup walks them in.
RECURSIVE BackupEntries(_, _, _)
BackupEntries(fs, ys, t) ==
    IF ys = <<>> THEN <<>>
    ELSE <<[key |-> IntStr(Head(ys)), value |-> load_data(fs, Head(ys), t).data]>>
         \o BackupEntries(fs, Tail(ys), t)

create_full_backup(fs, t) ==
    LET ys == get_available_years(fs)
    IN  IF \E i \in 1..Len(ys) : load_data(fs, ys[i], t).raised THEN Raise(fs)
        ELSE Skip(fs, JsonText([type |-> "dict",
                                backup_timestamp |-> t,
                                years |-> BackupEntries(fs, ys, t)]))

\* Variant: a key int() rejects ends the loop
RECURSIVE RestoreEntries_abort(_, _, _, _, _, _)
RestoreEntries_abort(fs, entries, t, ioOf, restored, written) ==
    IF entries = <<>> \/ ~ParseInt(Head(entries).key).ok
    THEN [files |-> fs, error |-> FALSE, restored |-> restored, written |-> written]
    ELSE LET k == ParseInt(Head(entries).key)
             sv == save_data(fs, k.value, Head(entries).value, t, ioOf[k.value])
         IN  IF sv.raised
             THEN [files |-> fs, error |-> TRUE, restored |-> restored, written |-> written]
             ELSE RestoreEntries_abort(sv.files, Tail(entries), t, ioOf,
                                       Append(restored, k.value),
                                       IF sv.saved = "ok" THEN written \cup {k.value}
                                       ELSE written \ {k.value})

\* The loop of restore_from_backup.  A key int() rejects is skipped; a save that
\* raises (a value that is no dict) leaves the loop through the outer except.
\* restored: the years appended to restored_years; written: those whose file
\* holds the record afterwards.
RECURSIVE RestoreEntries(_, _, _, _, _, _)
RestoreEntries(fs, entries, t, ioOf, restored, written) ==
    IF entries = <<>>
    THEN [files |-> fs, error |-> FALSE, restored |-> restored, written |-> written]
    ELSE LET e == Head(entries)
             k == ParseInt(e.key)
         IN  IF ~k.ok
             THEN RestoreEntries(fs, Tail(entries), t, ioOf, restored, written)
             ELSE LET sv == save_data(fs, k.value, e.value, t, ioOf[k.value])
                  IN  IF sv.raised
                      THEN [files |-> fs, error |-> TRUE, restored |-> restored,
                            written |-> written]
                      ELSE RestoreEntries(sv.files, Tail(entries), t, ioOf,
                                          Append(restored, k.value),
                                          IF sv.saved = "ok"
                                          THEN written \cup {k.value}
                                          ELSE written \ {k.value})

RestoreResult(success, message, years) ==
    [success |-> success, message |-> message, count |-> Len(years), years |-> years]

\* Variant: a bundle without 'years' is read as one with no entries
restore_from_backup_nocheck(fs, backup_json, t, ioOf) ==
    IF backup_json.kind # "json"
    THEN Skip(fs, RestoreResult(FALSE, "Invalid JSON format", <<>>)) @@ [written |-> {}]
    ELSE LET backup_data == backup_json.value
             entries == IF "years" \in DOMAIN backup_data THEN backup_data.years ELSE <<>>
         IN  IF FALSE
             THEN Skip(fs, RestoreResult(FALSE, "Invalid backup format: missing 'years' key",
                                         <<>>)) @@ [written |-> {}]
             ELSE LET r == RestoreEntries(fs, entries, t, ioOf, <<>>, {})
                      saved == IF r.restored = <<>> THEN "none"
                               ELSE IF \A i \in 1..Len(r.restored) : r.restored[i] \in r.written
                               THEN "ok" ELSE "failed"
                      ret == IF r.error
                             THEN RestoreResult(FALSE, "Error during restore", <<>>)
                             ELSE IF r.restored # <<>>
                             THEN RestoreResult(TRUE, "Successfully restored", r.restored)
                             ELSE RestoreResult(FALSE, "No valid year data found in backup",
                                                <<>>)
                  IN [files |-> r.files, raised |-> FALSE, ret |-> ret, saved |-> saved,
                      written |-> r.written]

restore_from_backup(fs, backup_json, t, ioOf) ==
    IF backup_json.kind # "json"
    THEN Skip(fs, RestoreResult(FALSE, "Invalid JSON format", <<>>)) @@ [written |-> {}]
    ELSE LET backup_data == backup_json.value
         IN  IF "years" \notin DOMAIN backup_data
             THEN Skip(fs, RestoreResult(FALSE, "Invalid backup format: missing 'years' key",
                                         <<>>)) @@ [written |-> {}]
             ELSE LET r == RestoreEntries(fs, backup_data.years, t, ioOf, <<>>, {})
                      saved == IF r.restored = <<>> THEN "none"
                               ELSE IF \A i \in 1..Len(r.restored) : r.restored[i] \in r.written
                               THEN "ok" ELSE "failed"
                      ret == IF r.error
                             THEN RestoreResult(FALSE, "Error during restore", <<>>)
                             ELSE IF r.restored # <<>>
                             THEN RestoreResult(TRUE, "Successfully restored", r.restored)
                             ELSE RestoreResult(FALSE, "No valid year data found in backup",
                                                <<>>)
                  IN [files |-> r.files, raised |-> FALSE, ret |-> ret, saved |-> saved,
                      written |-> r.written]

----------------------------------------------------------------------------
(* Queries *)

\* Python's truth of an Optional[str] and of an Optional[int] argument: None,
\* "" and 0 are false
TruthyStr(arg) == arg.type = "some" /\ arg.value # ""
TruthyInt(arg) == arg.type = "some" /\ arg.value # 0

\* sorted(history, key=timestamp, reverse=True): the sort is stable, entries
\* of equal timestamp keep the order they had
InsertDesc(e, s) ==
    LET k == Cardinality({i \in 1..Len(s) : s[i].timestamp >= e.timestamp})
    IN SubSeq(s, 1, k) \o <<e>> \o SubSeq(s, k + 1, Len(s))

RECURSIVE SortDesc(_)
SortDesc(h) ==
    IF h = <<>> THEN <<>>
    ELSE InsertDesc(h[Len(h)], SortDesc(SubSeq(h, 1, Len(h) - 1)))

\* history[:n]
Slice(s, n) ==
    IF n >= 0 THEN SubSeq(s, 1, IF n < Len(s) THEN n ELSE Len(s))
    ELSE SubSeq(s, 1, IF Len(s) + n > 0 THEN Len(s) + n ELSE 0)

\* Variant: the record the query loaded is saved, so a year without a file
\* gets one
get_payment_history_create(fs, year, member_name, limit, t) ==
    LET l == load_data(fs, year, t)
    IN  IF ~IsDict(l) THEN Raise(fs)
        ELSE LET history == l.data.payment_history
                 filtered == IF TruthyStr(member_name)
                             THEN SelectSeq(history, LAMBDA h : h.member = member_name.value)
                             ELSE history
                 sorted == SortDesc(filtered)
             IN [Skip(save_data(fs, year, l.data, t, "ok").files,
                      IF TruthyInt(limit) THEN Slice(sorted, limit.value) ELSE sorted)
                 EXCEPT !.saved = "ok"]

get_payment_history(fs, year, member_name, limit, t) ==
    LET l == load_data(fs, year, t)
    IN  IF ~IsDict(l) THEN Raise(fs)
        ELSE LET history == l.data.payment_history
                 filtered == IF TruthyStr(member_name)
                             THEN SelectSeq(history, LAMBDA h : h.member = member_name.value)
                             ELSE history
                 sorted == SortDesc(filtered)
             IN Skip(fs, IF TruthyInt(limit) THEN Slice(sorted, limit.value) ELSE sorted)

\* Python's float arithmetic, kept exact: a number is a fraction in lowest
\* terms with a positive denominator (rounding is left out)
RECURSIVE GCD(_, _)
GCD(a, b) == IF b = 0 THEN a ELSE GCD(b, a % b)

Frac(n, d) ==
    LET g == GCD(IF n < 0 THEN -n ELSE n, d)
    IN [num |-> n \div g, den |-> d \div g]

Num(n) == Frac(n, 1)
Mul(a, b) == Frac(a.num * b.num, a.den * b.den)
Div(a, b) == Frac(a.num * b.den, a.den * b.num)
Add(a, b) == Frac(a.num * b.den + b.num * a.den, a.den * b.den)
Sub(a, b) == Frac(a.num * b.den - b.num * a.den, a.den * b.den)

\* sum(1 for month in months if member_payments.get(month, False))
MonthsPaid(payments, member) ==
    Cardinality({i \in 1..12 : Get(Get(payments, member, EmptyMap), MONTHS[i], FALSE)})

\* The loop over members that adds up total_paid
RECURSIVE TotalPaid(_, _, _)
TotalPaid(members, payments, price_per_slot) ==
    IF members = <<>> THEN Num(0)
    ELSE Add(TotalPaid(SubSeq(members, 1, Len(members) - 1), payments, price_per_slot),
             Mul(Num(MonthsPaid(payments, members[Len(members)])), price_per_slot))

\* Variant: the price of a slot is the total price over max_slots
get_payment_summary_slots(fs, year, t) ==
    LET l == load_data(fs, year, t)
    IN  IF ~IsDict(l) THEN Raise(fs)
        ELSE IF l.data.members = <<>>
        THEN Skip(fs, [total_members |-> 0,
                       total_possible_amount |-> Num(0),
                       total_paid_amount |-> Num(0),
                       total_outstanding_amount |-> Num(0),
                       overall_payment_rate |-> Num(0)])
        ELSE LET members == l.data.members
                 price_per_slot == Div(Num(l.data.settings.total_price),
                                       Num(l.data.settings.max_slots))
                 total_possible == Mul(Num(Len(members) * 12), price_per_slot)
                 total_paid == TotalPaid(members, l.data.payments, price_per_slot)
             IN Skip(fs, [total_members |-> Len(members),
                          total_possible_amount |-> total_possible,
                          total_paid_amount |-> total_paid,
                          total_outstanding_amount |-> Sub(total_possible, total_paid),
                          overall_payment_rate |->
                              IF total_possible.num > 0
                              THEN Mul(Div(total_paid, total_possible), Num(100))
                              ELSE Num(0)])

get_payment_summary(fs, year, t) ==
    LET l == load_data(fs, year, t)
    IN  IF ~IsDict(l) THEN Raise(fs)
        ELSE IF l.data.members = <<>>
        THEN Skip(fs, [total_members |-> 0,
                       total_possible_amount |-> Num(0),
                       total_paid_amount |-> Num(0),
                       total_outstanding_amount |-> Num(0),
                       overall_payment_rate |-> Num(0)])
        ELSE LET members == l.data.members
                 price_per_slot == Div(Num(l.data.settings.total_price), Num(Len(members)))
                 total_possible == Mul(Num(Len(members) * 12), price_per_slot)
                 total_paid == TotalPaid(members, l.data.payments, price_per_slot)
             IN Skip(fs, [total_members |-> Len(members),
                          total_possible_amount |-> total_possible,
                          total_paid_amount |-> total_paid,
                          total_outstanding_amount |-> Sub(total_possible, total_paid),
                          overall_payment_rate |->
                              IF total_possible.num > 0
                              THEN Mul(Div(total_paid, total_possible), Num(100))
                              ELSE Num(0)])

----------------------------------------------------------------------------
(* What the state shows of a year *)

Record(fs, year) == load_data(fs, year, 0).data
HasRecord(fs, year) == fs[get_data_file_path(year)].kind = "json"
                       /\ fs[get_data_file_path(year)].value.type = "dict"
Members(fs, year) == IF HasRecord(fs, year) THEN Record(fs, year).members ELSE <<>>
History(fs, year) == IF HasRecord(fs, year) THEN Record(fs, year).payment_history ELSE <<>>
Payments(fs, year) == IF HasRecord(fs, year) THEN Record(fs, year).payments ELSE EmptyMap
Flag(fs, year, member, month) == Get(Get(Payments(fs, year), member, EmptyMap), month, FALSE)

\* The fields of a record other than its two time stamps
Structured(d) == [members |-> d.members, payments |-> d.payments,
                  payment_history |-> d.payment_history, settings |-> d.settings]

----------------------------------------------------------------------------
(* The calls on one DataManager, each run to completion *)

Clock == {t \in {now} : t <= MaxTime}

\* One call: the directory and the clock after it, and the call with its outcome
Call(label, res, t) ==
    /\ files' = res.files
    /\ now' = t + 1
    /\ lastOp' = label @@ [raised |-> res.raised, ret |-> res.ret, saved |-> res.saved]
    /\ UNCHANGED <<bundle, pc, local>>

CreateYear(IO) ==
    \E y \in Years, t \in Clock, io \in IO :
        Call([op |-> "createYear", year |-> y], create_year_data(files, y, t, io), t)

CopyMembersForward(IO) ==
    \E s \in Years, g \in Years, t \in Clock, io \in IO :
        /\ s # g
        /\ Call([op |-> "copyMembersForward", source |-> s, year |-> g],
                copy_members_from_year(files, s, g, t, io), t)

AddMember(IO) ==
    \E y \in Years, n \in Names, t \in Clock, io \in IO :
        Call([op |-> "addMember", year |-> y, member |-> n,
              before |-> [members |-> Members(files, y), history |-> History(files, y)]],
             add_member(files, y, n, t, io), t)

RemoveMember(IO) ==
    \E y \in Years, n \in Names, t \in Clock, io \in IO :
        Call([op |-> "removeMember", year |-> y, member |-> n,
              undoes |-> IF lastOp.op = "addMember" /\ lastOp.year = y /\ lastOp.member = n
                         THEN lastOp.before ELSE NoneVal],
             remove_member(files, y, n, t, io), t)

SetPayment(IO) ==
    \E y \in Years, n \in Names, c \in MonthInputs, p \in BOOLEAN, t \in Clock, io \in IO :
        Call([op |-> "setPayment", year |-> y, member |-> n, month |-> c, paid |-> p],
             update_payment(files, y, n, c, p, t, io), t)

\* update_payment takes any string as the month
SetPaymentOther(IO) ==
    \E y \in Years, n \in Names, c \in OtherMonths, p \in BOOLEAN, t \in Clock, io \in IO :
        Call([op |-> "setPayment", year |-> y, member |-> n, month |-> c, paid |-> p],
             update_payment(files, y, n, c, p, t, io), t)

BulkSetPayments(IO) ==
    \E y \in Years, n \in Names, c \in BulkStarts, k \in BulkLens, p \in BOOLEAN,
       t \in Clock, io \in IO :
        LET months == calculate_bulk_payment_months(c, k)
        IN Call([op |-> "bulkSetPayments", year |-> y, member |-> n, months |-> months,
                 paid |-> p],
                bulk_update_payments(files, y, n, months, p, t, io), t)

UpdateSettings(IO) ==
    \E y \in Years, s \in SettingsInputs, t \in Clock, io \in IO :
        Call([op |-> "updateSettings", year |-> y],
             update_settings(files, y, s.total_price, s.max_slots, t, io), t)

Load ==
    \E y \in Years, t \in Clock :
        LET l == load_data(files, y, t)
        IN Call([op |-> "load", year |-> y, t |-> t],
                [files |-> files, raised |-> l.raised, ret |-> l.data, saved |-> "none"], t)

GetHistory ==
    \E y \in Years, f \in FilterInputs, k \in LimitInputs, t \in Clock :
        Call([op |-> "getHistory", year |-> y, filter |-> f, limit |-> k],
             get_payment_history(files, y, f, k, t), t)

Summarize ==
    \E y \in Years, t \in Clock :
        Call([op |-> "summarize", year |-> y], get_payment_summary(files, y, t), t)

ExportBackup ==
    \E t \in Clock :
        LET r == create_full_backup(files, t)
        IN  /\ now' = t + 1
            /\ bundle' = IF r.raised THEN bundle ELSE r.ret
            /\ lastOp' = [op |-> "exportBackup", raised |-> r.raised, saved |-> "none",
                          ret |-> NoneVal]
            /\ UNCHANGED <<files, pc, local>>

\* The texts a user may upload: the last download, that download with its first
\* key made one int() rejects, a hand-made bundle, an object without 'years',
\* and text that is no JSON.
ReKey(b, key) ==
    IF b.value.years = <<>> THEN b
    ELSE JsonText([b.value EXCEPT !.years = <<[@[1] EXCEPT !.key = key]>> \o Tail(@)])

\* A backup kept from an earlier season and edited by hand: one good key, one
\* key int() rejects, and one int() reads despite its leading zero.
SampleRecord(year, members, payments, history) ==
    [DefaultRecord(year, 0) EXCEPT !.members = members, !.payments = payments,
                                   !.payment_history = history]

SampleBundle ==
    JsonText([type |-> "dict",
              backup_timestamp |-> 0,
              years |-> <<
                [key |-> IntStr(2024),
                 value |-> SampleRecord(2024, <<"Alice">>,
                              [m \in {"Alice"} |-> [c \in {"Jan"} |-> TRUE]],
                              <<HistoryEntry(0, "Alice", "Jan", FALSE, TRUE)>>)],
                [key |-> <<"x">>,
                 value |-> SampleRecord(2023, <<>>, EmptyMap, <<>>)],
                [key |-> <<"0">> \o IntStr(2025),
                 value |-> SampleRecord(2025, <<"Bob", "Alice">>,
                              [m \in {"Alice", "Bob"} |-> EmptyMap], <<>>)] >>])

NoYearsBundle == JsonText([type |-> "dict", backup_timestamp |-> 0])

Uploads ==
    {Garbage, NoYearsBundle, SampleBundle}
    \cup (IF bundle = NoneVal THEN {}
          ELSE {bundle, ReKey(bundle, <<"x">>)})

RestoreBackup(IO) ==
    \E b \in Uploads, t \in Clock, ioOf \in [Years -> IO] :
        LET r == restore_from_backup(files, b, t, ioOf)
        IN Call([op |-> "restoreBackup", upload |-> b, fresh |-> files = EmptyStore,
                 written |-> r.written],
                r, t)

----------------------------------------------------------------------------
(* Specifications *)

Idle == [p \in Procs |-> "idle"]
NoLocal == [p \in Procs |-> NoneVal]

Init ==
    /\ files = EmptyStore
    /\ now = 1
    /\ bundle = NoneVal
    /\ lastOp = [op |-> "init"]
    /\ pc = Idle
    /\ local = NoLocal

IOOk == {"ok"}

\* Sequential use with a file system that works
Next ==
    \/ CreateYear(IOOk)
    \/ CopyMembersForward(IOOk)
    \/ AddMember(IOOk)
    \/ RemoveMember(IOOk)
    \/ SetPayment(IOOk)
    \/ BulkSetPayments(IOOk)
    \/ UpdateSettings(IOOk)
    \/ Load
    \/ GetHistory
    \/ Summarize
    \/ ExportBackup
    \/ RestoreBackup(IOOk)

Spec == Init /\ [][Next]_vars

\* Sequential use where the month of a setPayment may be any string
NextMonths == Next \/ SetPaymentOther(IOOk)

SpecMonths == Init /\ [][NextMonths]_vars

\* The summary of a year, over stores that hold one record: its members,
\* total_price and flags are drawn from the sets above
InitSummary ==
    /\ \E y \in Years, ms \in SummaryMembers, price \in SummaryPrices,
          fa \in SummaryFlags, fb \in SummaryFlagsOther :
          LET pay == [m \in {ms[i] : i \in 1..Len(ms)} |-> IF m = "Alice" THEN fa ELSE fb]
              d == [SampleRecord(y, ms, pay, <<>>) EXCEPT !.settings.total_price = price]
          IN files = [EmptyStore EXCEPT ![get_data_file_path(y)] = JsonText(d)]
    /\ now = 1
    /\ bundle = NoneVal
    /\ lastOp = [op |-> "init"]
    /\ pc = Idle
    /\ local = NoLocal

SpecSummary == InitSummary /\ [][Summarize]_vars

\* The calls that change members and flags, and no others
NextLedger ==
    \/ AddMember(IOOk)
    \/ RemoveMember(IOOk)
    \/ SetPayment(IOOk)
    \/ BulkSetPayments(IOOk)
    \/ CopyMembersForward(IOOk)

SpecLedger == Init /\ [][NextLedger]_vars

\* The same calls on a file system whose open() or write() may fail
NextIO ==
    \/ CreateYear(IOModes)
    \/ CopyMembersForward(IOModes)
    \/ AddMember(IOModes)
    \/ RemoveMember(IOModes)
    \/ SetPayment(IOModes)
    \/ BulkSetPayments(IOModes)
    \/ UpdateSettings(IOModes)
    \/ Load
    \/ ExportBackup
    \/ RestoreBackup(IOModes)

SpecIO == Init /\ [][NextIO]_vars

\* The data directory is shared storage: another hand may leave a file there
\* that is no JSON, that cannot be read, or whose JSON is no object.
Tamper ==
    \E s \in Stems, c \in {Garbage, Unreadable, JsonText(NonObject)}, t \in Clock :
        /\ files' = [files EXCEPT ![s] = c]
        /\ now' = t + 1
        /\ lastOp' = [op |-> "tamper", stem |-> s]
        /\ UNCHANGED <<bundle, pc, local>>

NextEnv == Next \/ Tamper

SpecEnv == Init /\ [][NextEnv]_vars

----------------------------------------------------------------------------
(* Processes sharing the directory: a call is a load and a change in memory,
   then open(path, 'w'), which truncates the file, then the write of the text *)

ConcYear == CHOOSE y \in Years : \A z \in Years : y <= z
ConcPath == get_data_file_path(ConcYear)

\* The load -> mutate part of a call, against the directory as it is now; the
\* record it will save is the one the sequential operation would have written.
ConcCalls(t) ==
    {[label |-> [op |-> "addMember", year |-> ConcYear, member |-> n],
      res |-> add_member(files, ConcYear, n, t, "ok")] : n \in Names}
    \cup
    {[label |-> [op |-> "setPayment", year |-> ConcYear, member |-> a[1], month |-> a[2],
                 paid |-> TRUE],
      res |-> update_payment(files, ConcYear, a[1], a[2], TRUE, t, "ok")] :
        a \in Names \X MonthInputs}

BeginCall(p) ==
    \E t \in Clock : \E call \in ConcCalls(t) :
        /\ pc[p] = "idle"
        /\ now' = t + 1
        /\ IF call.res.saved = "ok"
           THEN /\ pc' = [pc EXCEPT ![p] = "loaded"]
                /\ local' = [local EXCEPT ![p] =
                               [label |-> call.label,
                                seen |-> load_data(files, ConcYear, t).data,
                                data |-> call.res.files[ConcPath].value,
                                before |-> NoneVal,
                                lost |-> NoneVal]]
                /\ UNCHANGED lastOp
           ELSE /\ lastOp' = call.label @@ [raised |-> call.res.raised, ret |-> NoneVal,
                                            saved |-> call.res.saved, proc |-> p]
                /\ UNCHANGED <<pc, local>>
        /\ UNCHANGED <<files, bundle>>

OpenForWrite(p) ==
    /\ pc[p] = "loaded"
    /\ files' = [files EXCEPT ![ConcPath] = Garbage]
    /\ local' = [local EXCEPT ![p].before = files[ConcPath]]
    /\ pc' = [pc EXCEPT ![p] = "writing"]
    /\ UNCHANGED <<now, bundle, lastOp>>

\* Variant: the members another process saved in the meantime are kept
WriteAndClose_merge(p) ==
    LET mine == local[p].data
        theirs == IF local[p].lost = NoneVal THEN <<>> ELSE local[p].lost.data.members
        merged == [mine EXCEPT
                     !.members = mine.members
                                 \o SelectSeq(theirs, LAMBDA m : ~InSeq(m, mine.members))]
    IN  /\ pc[p] = "writing"
        /\ files' = [files EXCEPT ![ConcPath] = JsonText(merged)]
        /\ pc' = [pc EXCEPT ![p] = "idle"]
        /\ lastOp' = local[p].label @@ [raised |-> FALSE, ret |-> NoneVal, saved |-> "ok",
                                        proc |-> p, seen |-> local[p].seen,
                                        data |-> local[p].data, lost |-> local[p].lost]
        /\ local' = [q \in Procs |->
                       IF q = p THEN NoneVal
                       ELSE IF pc[q] = "idle" THEN local[q]
                       ELSE [local[q] EXCEPT !.lost = [label |-> local[p].label,
                                                      data |-> local[p].data]]]
        /\ UNCHANGED <<now, bundle>>

\* The write of the text and the close.  seen: the record the call loaded;
\* data: the record it holds in memory and writes; lost: the save of another
\* process that came between this call's load and this write.
WriteAndClose(p) ==
    /\ pc[p] = "writing"
    /\ files' = [files EXCEPT ![ConcPath] = JsonText(local[p].data)]
    /\ pc' = [pc EXCEPT ![p] = "idle"]
    /\ lastOp' = local[p].label @@ [raised |-> FALSE, ret |-> NoneVal, saved |-> "ok",
                                    proc |-> p, seen |-> local[p].seen,
                                    data |-> local[p].data, lost |-> local[p].lost]
    /\ local' = [q \in Procs |->
                   IF q = p THEN NoneVal
                   ELSE IF pc[q] = "idle" THEN local[q]
                   ELSE [local[q] EXCEPT !.lost = [label |-> local[p].label,
                                                  data |-> local[p].data]]]
    /\ UNCHANGED <<now, bundle>>

\* A load by a process that is not in a call; during: the saves under way
ConcLoad(p) ==
    \E t \in Clock :
        LET l == load_data(files, ConcYear, t)
        IN  /\ pc[p] = "idle"
            /\ now' = t + 1
            /\ lastOp' = [op |-> "load", year |-> ConcYear, t |-> t, proc |-> p,
                          raised |-> l.raised, ret |-> l.data, saved |-> "none",
                          during |-> {[before |-> local[q].before, data |-> local[q].data] :
                                        q \in {r \in Procs : pc[r] = "writing"}}]
            /\ UNCHANGED <<files, bundle, pc, local>>

NextConc ==
    \E p \in Procs :
        \/ BeginCall(p)
        \/ OpenForWrite(p)
        \/ WriteAndClose(p)
        \/ ConcLoad(p)

SpecConc == Init /\ [][NextConc]_vars

----------------------------------------------------------------------------
(* Claims checked under Spec *)

HistoryAction(paid) == IF paid THEN "marked_paid" ELSE "marked_unpaid"

SameSetPayment(a, b) ==
    /\ a.op = "setPayment" /\ b.op = "setPayment"
    /\ a.year = b.year /\ a.member = b.member /\ a.month = b.month /\ a.paid = b.paid

\* C1: setPayment(year, member, month, paid) appends exactly one history entry
\* (action marked_paid / marked_unpaid, oldStatus the previous flag, newStatus
\* paid) when the stored flag, false if unset, differs from paid, and none when
\* it equals paid; the flag equals paid afterwards; two consecutive calls with
\* the same arguments append at most one entry in total.
C1_SetPaymentHistory ==
    [][lastOp'.op = "setPayment" =>
        LET y == lastOp'.year
            n == lastOp'.member
            c == lastOp'.month
            p == lastOp'.paid
            old == Flag(files, y, n, c)
            H == History(files, y)
            H2 == History(files', y)
        IN  /\ Flag(files', y, n, c) = p
            /\ IF old # p
               THEN H2 = Append(H, [timestamp |-> now, member |-> n, month |-> c,
                                    action |-> HistoryAction(p),
                                    old_status |-> old, new_status |-> p])
               ELSE H2 = H
            /\ SameSetPayment(lastOp, lastOp') =>
                 Cardinality({i \in 1..Len(H2) : H2[i].timestamp >= now - 1}) <= 1
    ]_vars

\* C1 witness: the second of two equal setPayment calls has run: the first made
\* the entry (two clock readings ago), the second made none, the flag is set.
C1_Witness ==
    /\ lastOp.op = "setPayment" /\ lastOp.paid
    /\ LET H == History(files, lastOp.year)
       IN  /\ H # <<>>
           /\ H[Len(H)].timestamp = now - 2
           /\ H[Len(H)].member = lastOp.member
           /\ H[Len(H)].month = lastOp.month
           /\ H[Len(H)].new_status
    /\ Flag(files, lastOp.year, lastOp.member, lastOp.month)

\* C2: bulkSetPayments(year, member, months, paid) appends, for every listed
\* month whose stored flag differs from paid, exactly one history entry for
\* (member, month), and none for a month whose flag already equals paid.
C2_BulkHistory ==
    [][lastOp'.op = "bulkSetPayments" =>
        LET y == lastOp'.year
            n == lastOp'.member
            months == lastOp'.months
            p == lastOp'.paid
            H == History(files, y)
            H2 == History(files', y)
        IN  /\ IsPrefix(H, H2)
            /\ \A i \in 1..Len(months) :
                 Cardinality({j \in (Len(H) + 1)..Len(H2) :
                                H2[j].member = n /\ H2[j].month = months[i]})
                   = IF Flag(files, y, n, months[i]) # p THEN 1 ELSE 0
    ]_vars

\* C3: paymentHistory is append-only: across every call other than
\* restoreBackup the history of each year before the call is a prefix of its
\* history after it.
C3_HistoryAppendOnly ==
    [][lastOp'.op # "restoreBackup" =>
        \A y \in Years : IsPrefix(History(files, y), History(files', y))
    ]_vars

\* C3 witness: a member that history entries refer to has just been removed,
\* and the entries are still there.
C3_Witness ==
    /\ lastOp.op = "removeMember" /\ lastOp.saved = "ok"
    /\ \E i \in 1..Len(History(files, lastOp.year)) :
         History(files, lastOp.year)[i].member = lastOp.member
    /\ ~InSeq(lastOp.member, Members(files, lastOp.year))

AllOk == [y \in Years |-> "ok"]

\* The fresh store: another data directory, empty, that the download is restored into
RestoredFresh == restore_from_backup(EmptyStore, bundle, now, AllOk)

\* C4: round trip: the output of exportBackup, restored into a fresh store,
\* gives the same listYears and, for every year, a load with the same members,
\* payments, paymentHistory and settings as the store exported from.
C4_RoundTrip ==
    (lastOp.op = "exportBackup" /\ ~lastOp.raised) =>
        /\ get_available_years(RestoredFresh.files) = get_available_years(files)
        /\ \A y \in Years :
             Structured(load_data(RestoredFresh.files, y, now + 1).data)
               = Structured(load_data(files, y, now + 1).data)

\* C4 witness: a store of two years with members and history has been exported,
\* and the restore of the download into the fresh store reports both years.
C4_Witness ==
    /\ lastOp.op = "exportBackup" /\ ~lastOp.raised
    /\ Len(get_available_years(files)) = 2
    /\ \E y \in Years : History(files, y) # <<>> /\ Members(files, y) # <<>>
    /\ RestoredFresh.ret.success
    /\ RestoredFresh.ret.count = 2

GoodEntries(entries) == SelectSeq(entries, LAMBDA e : ParseInt(e.key).ok)
EntryYears(entries) == [i \in 1..Len(entries) |-> ParseInt(entries[i].key).value]
LastEntryFor(entries, y) ==
    entries[CHOOSE i \in 1..Len(entries) :
              /\ EntryYears(entries)[i] = y
              /\ \A j \in (i + 1)..Len(entries) : EntryYears(entries)[j] # y].value

HasYears(upload) == upload.kind = "json" /\ "years" \in DOMAIN upload.value

\* C8: restoreBackup skips every entry whose key cannot be coerced to a year,
\* persists every other entry as a full overwrite of that year, succeeds with the
\* count and the year identifiers when at least one year was restored, and
\* returns the empty-backup failure exactly when none was.
C8_RestoreSkipsBadKeys ==
    [][(lastOp'.op = "restoreBackup" /\ HasYears(lastOp'.upload)) =>
        LET good == GoodEntries(lastOp'.upload.value.years)
            yrs == EntryYears(good)
        IN  /\ \A y \in Years :
                 files'[IntStr(y)] =
                    IF InSeq(y, yrs)
                    THEN JsonText([LastEntryFor(good, y) EXCEPT !.updated_at = now])
                    ELSE files[IntStr(y)]
            /\ \A s \in StrayStems : files'[s] = files[s]
            /\ ~lastOp'.raised
            /\ lastOp'.ret.success = (good # <<>>)
            /\ good # <<>> => /\ lastOp'.ret.message = "Successfully restored"
                              /\ lastOp'.ret.count = Len(good)
                              /\ lastOp'.ret.years = yrs
            /\ good = <<>> => lastOp'.ret.message = "No valid year data found in backup"
    ]_vars

\* C8 witness: a bundle with a key that is no year has been restored: that
\* entry was skipped and the two others are reported.
C8_Witness ==
    /\ lastOp.op = "restoreBackup" /\ HasYears(lastOp.upload)
    /\ lastOp.ret.success
    /\ lastOp.ret.count = 2
    /\ Len(lastOp.upload.value.years) = 3

\* C9: restoreBackup on a bundle that parses but has no top-level 'years' key
\* returns failure with the message naming the missing key and writes nothing.
C9_MissingYearsKey ==
    [][(/\ lastOp'.op = "restoreBackup"
        /\ lastOp'.upload.kind = "json"
        /\ "years" \notin DOMAIN lastOp'.upload.value) =>
        /\ ~lastOp'.raised
        /\ ~lastOp'.ret.success
        /\ lastOp'.ret.message = "Invalid backup format: missing 'years' key"
        /\ lastOp'.saved = "none"
        /\ files' = files
    ]_vars

\* C9 witness: such a bundle was uploaded to a store that holds records
C9_Witness ==
    /\ lastOp.op = "restoreBackup"
    /\ lastOp.upload = NoYearsBundle
    /\ ~lastOp.ret.success
    /\ \E y \in Years : HasRecord(files, y) /\ Members(files, y) # <<>>

\* C10 as stated: for every name, addMember(year, name) followed by
\* removeMember(year, name) leaves members as before the addMember and
\* paymentHistory unchanged.
C10_AddThenRemove ==
    (lastOp.op = "removeMember" /\ lastOp.undoes # NoneVal) =>
        /\ Members(files, lastOp.year) = lastOp.undoes.members
        /\ History(files, lastOp.year) = lastOp.undoes.history

\* C10 amended: for every name that is not yet a member, addMember(year, name)
\* followed by removeMember(year, name) leaves members as before the addMember
\* and paymentHistory unchanged.
C10_AddThenRemoveNew ==
    (/\ lastOp.op = "removeMember" /\ lastOp.undoes # NoneVal
     /\ ~InSeq(lastOp.member, lastOp.undoes.members)) =>
        /\ Members(files, lastOp.year) = lastOp.undoes.members
        /\ History(files, lastOp.year) = lastOp.undoes.history

\* C10 witness: a new member was added to a year that has a member and a
\* history entry, and removed again.
C10_Witness ==
    /\ lastOp.op = "removeMember" /\ lastOp.undoes # NoneVal
    /\ ~InSeq(lastOp.member, lastOp.undoes.members)
    /\ lastOp.undoes.members # <<>>
    /\ lastOp.undoes.history # <<>>
    /\ lastOp.saved = "ok"

\* C11: removeMember(year, name) changes nothing and saves nothing when name
\* is no member; otherwise name is no member afterwards, payments has no entry
\* for it, the other members keep their order, and paymentHistory, with the
\* entries that name the removed member, and settings are as before.
C11_RemoveMemberFrame ==
    [][lastOp'.op = "removeMember" =>
        LET y == lastOp'.year
            n == lastOp'.member
            M == Members(files, y)
        IN  IF ~InSeq(n, M)
            THEN files' = files /\ lastOp'.saved = "none"
            ELSE /\ ~InSeq(n, Members(files', y))
                 /\ n \notin DOMAIN Payments(files', y)
                 /\ Members(files', y) = SelectSeq(M, LAMBDA m : m # n)
                 /\ History(files', y) = History(files, y)
                 /\ Record(files', y).settings = Record(files, y).settings
    ]_vars

\* C11 witness: the first of two members, one that a history entry names, has
\* been removed; the other member and the entry are still there.
C11_Witness ==
    /\ lastOp.op = "removeMember" /\ lastOp.saved = "ok"
    /\ Members(files, lastOp.year) # <<>>
    /\ ~InSeq(lastOp.member, Members(files, lastOp.year))
    /\ lastOp.member \notin DOMAIN Payments(files, lastOp.year)

NoDuplicates(s) == \A i \in 1..Len(s) : \A j \in 1..Len(s) : s[i] = s[j] => i = j

\* C12: after every call (addMember, removeMember, setPayment,
\* bulkSetPayments, copyMembersForward, updateSettings, createYear, restoreBackup
\* of an exported bundle) no year's members holds a name twice, and addMember of
\* a name that is a member already leaves the record as it was.
C12_NoDuplicateMembers ==
    [][/\ \A y \in Years : NoDuplicates(Members(files', y))
       /\ (lastOp'.op = "addMember"
            /\ InSeq(lastOp'.member, Members(files, lastOp'.year))) => files' = files
    ]_vars

\* C12 witness: addMember was called with the name of one of two members
C12_Witness ==
    /\ lastOp.op = "addMember" /\ lastOp.saved = "none"
    /\ InSeq(lastOp.member, lastOp.before.members)
    /\ Len(Members(files, lastOp.year)) = 2
    /\ Members(files, lastOp.year) = lastOp.before.members

SeqSet(s) == {s[i] : i \in 1..Len(s)}

\* C13: in every reachable state every name in a year's members has an entry,
\* possibly empty, in that year's payments.
C13_MembersHavePayments ==
    \A y \in Years : SeqSet(Members(files, y)) \subseteq DOMAIN Payments(files, y)

\* C13 witness: two members have been copied into a year, and each has its
\* payments entry there.
C13_Witness ==
    /\ lastOp.op = "copyMembersForward" /\ lastOp.saved = "ok"
    /\ Len(Members(files, lastOp.year)) = 2
    /\ SeqSet(Members(files, lastOp.year)) \subseteq DOMAIN Payments(files, lastOp.year)

Min(a, b) == IF a < b THEN a ELSE b

\* C16: getHistory(year, memberFilter, limit) returns the year's history
\* entries ordered by timestamp descending; with a memberFilter every returned
\* entry is of that member and no entry of that member is left out before
\* truncation; with a limit the result is the first limit entries of that
\* ordering, so at most limit entries; the persisted history is not modified.
C16_GetHistory ==
    [][lastOp'.op = "getHistory" =>
        LET f == lastOp'.filter
            k == lastOp'.limit
            H == History(files, lastOp'.year)
            R == lastOp'.ret
            matching == IF f.type = "some"
                        THEN SelectSeq(H, LAMBDA h : h.member = f.value)
                        ELSE H
            left == SeqSet(matching) \ SeqSet(R)
        IN  /\ ~lastOp'.raised
            /\ \A i \in 1..Len(R) : \A j \in i..Len(R) : R[i].timestamp >= R[j].timestamp
            /\ SeqSet(R) \subseteq SeqSet(matching)
            /\ \A e \in left : \A i \in 1..Len(R) : R[i].timestamp >= e.timestamp
            /\ Len(R) = IF k.type = "some" THEN Min(k.value, Len(matching))
                        ELSE Len(matching)
            /\ files' = files
    ]_vars

\* C18: bulkSetPayments(year, member, months, paid) sets the flag of exactly
\* the listed months to paid for that member and leaves every other month flag
\* of that member, every other member's flags, members and settings unchanged,
\* also when months runs over the end of the year (Nov, Dec, Jan).
C18_BulkFrame ==
    [][lastOp'.op = "bulkSetPayments" =>
        LET y == lastOp'.year
            n == lastOp'.member
            listed == SeqSet(lastOp'.months)
            P == Payments(files, y)
            P2 == Payments(files', y)
        IN  /\ DOMAIN P2 = DOMAIN P \cup {n}
            /\ DOMAIN P2[n] = DOMAIN Get(P, n, EmptyMap) \cup listed
            /\ \A c \in DOMAIN P2[n] :
                 P2[n][c] = IF c \in listed THEN lastOp'.paid ELSE P[n][c]
            /\ \A m \in DOMAIN P \ {n} : P2[m] = P[m]
            /\ Members(files', y) = Members(files, y)
            /\ Record(files', y).settings = Record(files, y).settings
    ]_vars

\* C18 witness: Nov, Dec, Jan were set for a member whose Dec flag an earlier
\* setPayment had written, in a year where another member has a flag of its own.
C18_Witness ==
    /\ lastOp.op = "bulkSetPayments" /\ lastOp.saved = "ok" /\ lastOp.paid
    /\ lastOp.months = <<"Nov", "Dec", "Jan">>
    /\ \A c \in {"Nov", "Dec", "Jan"} : Flag(files, lastOp.year, lastOp.member, c)
    /\ \E i \in 1..Len(History(files, lastOp.year)) :
         /\ History(files, lastOp.year)[i].member = lastOp.member
         /\ History(files, lastOp.year)[i].month = "Dec"
    /\ \E m \in DOMAIN Payments(files, lastOp.year) \ {lastOp.member} :
         Payments(files, lastOp.year)[m] # EmptyMap

Mutators == {"addMember", "removeMember", "setPayment", "bulkSetPayments",
             "updateSettings", "createYear", "copyMembersForward"}
Reads == {"load", "getHistory", "summarize", "exportBackup"}

\* C21: years are isolated: addMember, removeMember, setPayment,
\* bulkSetPayments, updateSettings and createYear on year Y leave the persisted
\* record, and the existence, of every other year as it was, and
\* copyMembersForward(S, T) changes year T only; load, getHistory, summarize
\* and exportBackup change no year and create no backing record, so listYears
\* is the same after them.
C21_YearsIsolated ==
    [][/\ lastOp'.op \in Mutators =>
            \A s \in Stems \ {get_data_file_path(lastOp'.year)} : files'[s] = files[s]
       /\ lastOp'.op \in Reads =>
            /\ files' = files
            /\ get_available_years(files') = get_available_years(files)
    ]_vars

\* C21 witness: the history of a year that has no backing record was asked
\* for while another year holds members; the year still has no record and
\* listYears names the other year alone.
C21_Witness ==
    /\ lastOp.op = "getHistory" /\ ~lastOp.raised
    /\ files[get_data_file_path(lastOp.year)] = Missing
    /\ Len(get_available_years(files)) = 1
    /\ \E y \in Years \ {lastOp.year} : Members(files, y) # <<>>

----------------------------------------------------------------------------
(* Claims checked under SpecMonths *)

\* C15: setPayment never corrupts the 12-month keyspace: after a setPayment
\* with any month value, one outside Jan..Dec included, every key of
\* payments[member] is one of the twelve month codes.
C15_MonthKeyspace ==
    \A y \in Years : \A m \in DOMAIN Payments(files, y) :
        DOMAIN Payments(files, y)[m] \subseteq MonthCodes

----------------------------------------------------------------------------
(* Claims checked under SpecSummary *)

\* The fraction r is n / d
IsFrac(r, n, d) == r.num * d = n * r.den

RECURSIVE SumTo(_, _)
SumTo(f, n) == IF n = 0 THEN 0 ELSE f[n] + SumTo(f, n - 1)

\* C17: summarize(year) returns the all-zero aggregate when the year has no
\* members, whatever totalPrice is, and never divides by zero; otherwise, with
\* pricePerSlot = totalPrice / |members| and monthsPaid(m) the number of the 12
\* month codes flagged true for m, totalPossible = |members| x 12 x pricePerSlot,
\* totalPaid = sum over the members of monthsPaid(m) x pricePerSlot,
\* totalOutstanding = totalPossible - totalPaid and overallRate = totalPaid /
\* totalPossible x 100.
C17_Summarize ==
    lastOp.op = "summarize" =>
        LET y == lastOp.year
            M == Members(files, y)
            k == Len(M)
            total == Record(files, y).settings.total_price
            monthsPaid == [i \in 1..k |->
                             Cardinality({c \in MonthCodes : Flag(files, y, M[i], c)})]
            S == SumTo(monthsPaid, k)
            r == lastOp.ret
        IN  /\ ~lastOp.raised
            /\ r.total_members = k
            /\ k = 0 => /\ IsFrac(r.total_possible_amount, 0, 1)
                        /\ IsFrac(r.total_paid_amount, 0, 1)
                        /\ IsFrac(r.total_outstanding_amount, 0, 1)
                        /\ IsFrac(r.overall_payment_rate, 0, 1)
            /\ k > 0 => /\ IsFrac(r.total_possible_amount, k * 12 * total, k)
                        /\ IsFrac(r.total_paid_amount, S * total, k)
                        /\ IsFrac(r.total_outstanding_amount, (k * 12 - S) * total, k)
                        /\ total > 0 => IsFrac(r.overall_payment_rate, S * 100, k * 12)

\* C17 witness: the summary of members Alice and Bob at totalPrice 100 with
\* Alice's Jan, Feb, Mar paid: 1200, 150, 1050 and 12.5 percent.
C17_Witness ==
    /\ lastOp.op = "summarize"
    /\ Members(files, lastOp.year) = <<"Alice", "Bob">>
    /\ Record(files, lastOp.year).settings.total_price = 100
    /\ Payments(files, lastOp.year) =
         [m \in {"Alice", "Bob"} |->
            IF m = "Alice" THEN [c \in {"Jan", "Feb", "Mar"} |-> TRUE] ELSE EmptyMap]
    /\ lastOp.ret = [total_members |-> 2,
                     total_possible_amount |-> [num |-> 1200, den |-> 1],
                     total_paid_amount |-> [num |-> 150, den |-> 1],
                     total_outstanding_amount |-> [num |-> 1050, den |-> 1],
                     overall_payment_rate |-> [num |-> 25, den |-> 2]]

----------------------------------------------------------------------------
(* Claims checked under SpecLedger *)

\* new_status of the last history entry for (member, month), false if none
LastStatus(H, member, month) ==
    LET idx == {i \in 1..Len(H) : H[i].member = member /\ H[i].month = month}
    IN  IF idx = {} THEN FALSE
        ELSE H[CHOOSE i \in idx : \A j \in idx : j <= i].new_status

\* C20: history and ledger stay consistent: in every state reached by
\* addMember, removeMember, setPayment, bulkSetPayments and copyMembersForward,
\* for every member m and month code c the stored flag payments[m][c], false if
\* absent, is the newStatus of the most recent history entry for (m, c), or
\* false if there is none.
C20_HistoryMatchesLedger ==
    \A y \in Years : \A i \in 1..Len(Members(files, y)) : \A c \in MonthCodes :
        Flag(files, y, Members(files, y)[i], c)
          = LastStatus(History(files, y), Members(files, y)[i], c)

----------------------------------------------------------------------------
(* Claims checked under SpecEnv, SpecConc and SpecIO *)

\* C5: load(year) never raises, and whenever the year has no backing record or
\* its persisted content is malformed (unparseable, unreadable, or not a record
\* object) it returns the fresh default record.
C5_LoadNeverRaises ==
    lastOp.op = "load" =>
        /\ ~lastOp.raised
        /\ ~HasRecord(files, lastOp.year) =>
             lastOp.ret = DefaultRecord(lastOp.year, lastOp.t)

\* C6: a load of a year that runs while a save of that year is under way
\* returns the complete record persisted before the save or the complete record
\* being saved, never a default record put in place of one.
C6_SaveAtomicForReaders ==
    lastOp.op = "load" =>
        \A w \in lastOp.during :
            lastOp.ret \in
                {load_data([files EXCEPT ![ConcPath] = w.before], lastOp.year, lastOp.t).data,
                 w.data}

\* C7: when the save of a ledger operation or of restoreBackup fails, the
\* caller is told (the call raises or returns a failure), and restoreBackup
\* reports no year as restored whose record was not persisted.
C7_SaveFailureReported ==
    /\ lastOp.op # "init" /\ lastOp.saved = "failed" =>
         \/ lastOp.raised
         \/ lastOp.op = "restoreBackup" /\ ~lastOp.ret.success
    /\ lastOp.op = "restoreBackup" =>
         \A i \in 1..Len(lastOp.ret.years) : lastOp.ret.years[i] \in lastOp.written

\* C19: when two load-mutate-save calls on the same year from separate
\* processes interleave, both loads before either save, the record persisted
\* after both have completed is the in-memory record of the call whose save ran
\* last, and the other call's mutation (an added member, an appended history
\* entry) is not in the store.
C19_LastWriterWins ==
    (/\ pc = Idle
     /\ lastOp.op \in {"addMember", "setPayment"}
     /\ lastOp.saved = "ok"
     /\ lastOp.lost # NoneVal) =>
        LET lostMembers == SeqSet(lastOp.lost.data.members) \ SeqSet(lastOp.seen.members)
            lostEntries == SeqSet(lastOp.lost.data.payment_history)
                           \ SeqSet(lastOp.seen.payment_history)
            own == IF lastOp.op = "addMember" THEN {lastOp.member} ELSE {}
        IN  /\ files[ConcPath] = JsonText(lastOp.data)
            /\ \A m \in lostMembers \ own : ~InSeq(m, Members(files, ConcYear))
            /\ \A e \in lostEntries : ~InSeq(e, History(files, ConcYear))

\* C19 witness: an addMember and a setPayment both loaded the empty year; the
\* addMember saved first and the setPayment last: the store has the history
\* entry and not the member.
C19_Witness ==
    /\ pc = Idle
    /\ lastOp.op = "setPayment" /\ lastOp.saved = "ok"
    /\ lastOp.lost # NoneVal
    /\ lastOp.lost.label.op = "addMember"
    /\ lastOp.lost.data.members = <<lastOp.lost.label.member>>
    /\ lastOp.seen.members = <<>>
    /\ Members(files, ConcYear) = <<>>
    /\ Len(History(files, ConcYear)) = 1

====
